---- MODULE Spec2Model ----
(***************************************************************************)
(* Model of the fee-enabled Bountrip contract (class Bountrip, second      *)
(* class of src/unnamed/part_000, lines 207-473).                          *)
(*                                                                         *)
(* One action per entry point.  An entry point that hits an assert (or a   *)
(* thrown error) panics: the host discards every write of the call, so the *)
(* contract state is exactly as before and no transfer is issued.          *)
(*                                                                         *)
(* Amounts are BigInt values (arbitrary precision).  They are written in   *)
(* units of 10^19 yoctoNEAR so that 10^24 yoctoNEAR (1 NEAR) is 100000.    *)
(* A JavaScript number n is the record [int |-> i, half |-> b] standing    *)
(* for i (b = FALSE) or i + 0.5 (b = TRUE).                                *)
(*                                                                         *)
(* The host runs one call at a time.  last, result, returned, hostCalls    *)
(* and transfers hold the receipt of the call that has just run; Return    *)
(* hands the receipt back and leaves the contract ready for the next call. *)
(* deposited and paidOut are the host's account of the money that entered  *)
(* with create_bounty and left with each bounty's transfers.               *)
(***************************************************************************)
EXTENDS Integers, Sequences, FiniteSets, TLC

VARIABLES
    bounties,       \* this.bounties: stored key -> Bounty record
    bountyCount,    \* this.bountyCount
    owner,          \* this.owner ("" while no owner is set)
    feePercentage,  \* this.feePercentage (a JavaScript number)
    last,           \* the call just executed: entry point and caller
    result,         \* outcome of that call: "ok" or the error it panicked with
    returned,       \* value that call returned (Void if none)
    hostCalls,      \* record writes and transfers made by that call, in
                    \* program order
    transfers,      \* transfers issued by that call, in order of issue
    deposited,      \* sum of the deposits the contract's account has received
                    \* with successful create_bounty calls
    paidOut         \* bounty id -> sum of the transfers issued for that bounty

state == <<bounties, bountyCount, owner, feePercentage>>
\* what the host's ledger has seen of the contract's account
ledger == <<deposited, paidOut>>

vars == <<bounties, bountyCount, owner, feePercentage,
          last, result, returned, hostCalls, transfers, deposited, paidOut>>

----------------------------------------------------------------------------
(* Bounds and input alphabets *)

MaxBounties == 1

Accounts == {"alice", "bob"}

Absent == "undefined"

NewOwnerInputs == Accounts \cup {Absent, "", " "}

Int_(i) == [int |-> i, half |-> FALSE]

Half_(i) == [int |-> i, half |-> TRUE]

FeeInputs == {Int_(-1), Int_(0), Half_(2), Int_(100), Int_(101)}

PrizeInputs == {<< >>, <<0, 75>>, <<-1, 76>>, <<100000, 50000>>}

DepositInputs == {0, 75, 150000}

BountyIds == 0..MaxBounties

\* ids asked of get_bounty
ViewIds == -1..MaxBounties

WinnerInputs == {<< >>} \cup [1..1 -> Accounts] \cup [1..2 -> Accounts]

----------------------------------------------------------------------------
(* Helpers *)

RECURSIVE SumSeq(_)
SumSeq(s) == IF s = << >> THEN 0 ELSE Head(s) + SumSeq(Tail(s))

Range(s) == {s[i] : i \in 1..Len(s)}

\* amount leaving the account with a sequence of transfers
Sent(t) == SumSeq([i \in 1..Len(t) |-> t[i].amount])

\* BigInt division truncates toward zero
BigIntDiv(a, b) == IF a >= 0 THEN a \div b ELSE -((-a) \div b)

InFeeRange_NoUpperLimit(n) == n.int >= 0

\* n >= 0 && n <= 100 on a JavaScript number
InFeeRange(n) == n.int >= 0 /\ (n.int < 100 \/ (n.int = 100 /\ ~n.half))

\* BigInt(n) throws RangeError unless n is an integer
IsInteger(n) == ~n.half

\* new_owner && new_owner.trim().length > 0
HasNewOwner(new_owner) == new_owner \notin {Absent, "", " "}

DefaultFee == 2

NoCall == [op |-> "none", caller |-> ""]

\* a call method declared void, or a call that panicked, returns nothing
Void == "void"

\* this.bounties.set(key, bounty): the record is written to storage at once
StorageWrite(key, bounty) ==
    [call |-> "storage_write", key |-> key, value |-> bounty]

\* near.promiseBatchCreate(to); near.promiseBatchActionTransfer(promise, amount)
PromiseTransfer(transfer) ==
    [call |-> "promise_transfer", to |-> transfer.to, amount |-> transfer.amount]

\* new UnorderedMap('bounties')
EmptyMap == [k \in {} |-> k]

\* this.bounties.get(bountyId.toString()) is undefined for a key never set
Exists(bountyId) == bountyId \in DOMAIN bounties

\* near.promiseBatchActionTransfer takes a u128 amount
IsU128(amount) == amount >= 0

IsOwner_Unchecked(caller) == TRUE

\* assert(caller === this.owner, ...)
IsOwner(caller) == caller = owner

FirstOwner_FromArgument(caller, new_owner) ==
    IF HasNewOwner(new_owner) THEN new_owner ELSE caller

\* owner recorded by the first set_owner call
FirstOwner(caller, new_owner) == caller

DepositMatches_AtLeast(deposit, total) == deposit >= total

\* assert(deposit === total, ...)
DepositMatches(deposit, total) == deposit = total

IsOpen_Unchecked(bounty) == TRUE

\* assert(bounty.isActive, ...) in participate
IsOpen(bounty) == bounty.isActive

IsCreator_Unchecked(caller, bounty) == TRUE

\* assert(caller === bounty.creator, ...)
IsCreator(caller, bounty) == caller = bounty.creator

CountMatches_AtMost(winners, bounty) == Len(winners) <= Len(bounty.prizes)

\* assert(winners.length === bounty.prizes.length, ...)
CountMatches(winners, bounty) == Len(winners) = Len(bounty.prizes)

WinnersAreParticipants_FirstOnly(winners, bounty) ==
    winners[1] \in Range(bounty.participants)

\* for (let w of winners) assert(bounty.participants.includes(w), ...)
WinnersAreParticipants(winners, bounty) ==
    \A i \in 1..Len(winners) : winners[i] \in Range(bounty.participants)

Fee_RoundedUp(bounty, i) ==
    IF owner # ""
    THEN BigIntDiv(bounty.prizes[i] * feePercentage.int + 99, 100)
    ELSE 0

Fee_AtDefaultRate(bounty, i) ==
    IF owner # ""
    THEN BigIntDiv(bounty.prizes[i] * DefaultFee, 100)
    ELSE 0

Fee_PerHundredThousand(bounty, i) ==
    IF owner # ""
    THEN BigIntDiv(bounty.prizes[i] * feePercentage.int, 100000)
    ELSE 0

Fee_OwnerUnchecked(bounty, i) ==
    BigIntDiv(bounty.prizes[i] * feePercentage.int, 100)

\* fee withheld from prizes[i] in _distribute_prizes
Fee(bounty, i) ==
    IF owner # ""
    THEN BigIntDiv(bounty.prizes[i] * feePercentage.int, 100)
    ELSE 0

NetPrize(bounty, i) == bounty.prizes[i] - Fee(bounty, i)

TotalFee(bounty) == SumSeq([i \in 1..Len(bounty.winners) |-> Fee(bounty, i)])

Distribution_NoFeeTransfer(bounty) ==
    [i \in 1..Len(bounty.winners) |->
        [to |-> bounty.winners[i], amount |-> NetPrize(bounty, i)]]

\* promises created by _distribute_prizes, in order of creation
Distribution(bounty) ==
    [i \in 1..Len(bounty.winners) |->
        [to |-> bounty.winners[i], amount |-> NetPrize(bounty, i)]]
    \o (IF TotalFee(bounty) > 0
        THEN <<[to |-> owner, amount |-> TotalFee(bounty)]>>
        ELSE << >>)

\* error thrown inside _distribute_prizes, "" if none
DistributionError(bounty) ==
    IF owner # "" /\ ~IsInteger(feePercentage)
    THEN "RangeError"
    ELSE IF \E i \in 1..Len(bounty.winners) : ~IsU128(NetPrize(bounty, i))
    THEN "HostError"
    ELSE ""

----------------------------------------------------------------------------
Init ==
    /\ bounties = EmptyMap
    /\ bountyCount = 0
    /\ owner = ""
    /\ feePercentage = Int_(DefaultFee)
    /\ last = NoCall
    /\ result = ""
    /\ returned = Void
    /\ hostCalls = << >>
    /\ transfers = << >>
    /\ deposited = 0
    /\ paidOut = EmptyMap

\* the host starts a call only when the previous one has returned
Call(call) ==
    /\ last = NoCall
    /\ last' = call

\* the receipt of the finished call is handed back
Return ==
    /\ last # NoCall
    /\ last' = NoCall
    /\ result' = ""
    /\ returned' = Void
    /\ hostCalls' = << >>
    /\ transfers' = << >>
    /\ UNCHANGED <<state, ledger>>

\* A panicking call: every write is discarded and no promise is created.
Panic(kind) ==
    /\ result' = kind
    /\ returned' = Void
    /\ hostCalls' = << >>
    /\ transfers' = << >>
    /\ UNCHANGED <<state, ledger>>

\* outcome of set_owner: "ok" or the failed assert
SetOwnerResult(caller, new_owner) ==
    IF owner = "" THEN "ok"
    ELSE IF ~IsOwner(caller) THEN "Unauthorized"
    ELSE "ok"

\* this.owner after a set_owner call that does not panic
SetOwnerValue(caller, new_owner) ==
    IF owner = "" THEN FirstOwner(caller, new_owner)
    ELSE IF HasNewOwner(new_owner) THEN new_owner
    ELSE owner

set_owner_ResetsFee(caller, new_owner) ==
    /\ Call([op |-> "set_owner", caller |-> caller])
    /\ IF SetOwnerResult(caller, new_owner) # "ok"
       THEN Panic(SetOwnerResult(caller, new_owner))
       ELSE /\ owner' = SetOwnerValue(caller, new_owner)
            /\ feePercentage' = Int_(DefaultFee)
            /\ result' = "ok"
            /\ returned' = Void
            /\ hostCalls' = << >>
            /\ transfers' = << >>
            /\ UNCHANGED <<bounties, bountyCount, ledger>>

set_owner(caller, new_owner) ==
    /\ Call([op |-> "set_owner", caller |-> caller])
    /\ IF SetOwnerResult(caller, new_owner) # "ok"
       THEN Panic(SetOwnerResult(caller, new_owner))
       ELSE /\ owner' = SetOwnerValue(caller, new_owner)
            /\ result' = "ok"
            /\ returned' = Void
            /\ hostCalls' = << >>
            /\ transfers' = << >>
            /\ UNCHANGED <<bounties, bountyCount, feePercentage, ledger>>

\* outcome of update_fee_percentage: "ok" or the failed assert
UpdateFeeResult(caller, fee) ==
    IF owner = "" THEN "OwnerNotSet"
    ELSE IF ~IsOwner(caller) THEN "Unauthorized"
    ELSE IF ~InFeeRange(fee) THEN "InvalidInput"
    ELSE "ok"

update_fee_percentage(caller, fee) ==
    /\ Call([op |-> "update_fee_percentage", caller |-> caller])
    /\ IF UpdateFeeResult(caller, fee) # "ok"
       THEN Panic(UpdateFeeResult(caller, fee))
       ELSE /\ feePercentage' = fee
            /\ result' = "ok"
            /\ returned' = Void
            /\ hostCalls' = << >>
            /\ transfers' = << >>
            /\ UNCHANGED <<bounties, bountyCount, owner, ledger>>

\* outcome of create_bounty: "ok" or the failed assert
CreateResult(prizes, deposit) ==
    IF prizes = << >> THEN "InvalidInput"
    ELSE IF ~DepositMatches(deposit, SumSeq(prizes)) THEN "PaymentMismatch"
    ELSE "ok"

NewBounty_IdFromOne(caller, prizes) ==
    [id |-> bountyCount + 1,
     creator |-> caller,
     totalPrize |-> SumSeq(prizes),
     prizes |-> prizes,
     participants |-> << >>,
     winners |-> << >>,
     isActive |-> TRUE]

NewBounty_TotalOfFirstPrize(caller, prizes) ==
    [id |-> bountyCount,
     creator |-> caller,
     totalPrize |-> prizes[1],
     prizes |-> prizes,
     participants |-> << >>,
     winners |-> << >>,
     isActive |-> TRUE]

\* the record create_bounty stores
NewBounty(caller, prizes) ==
    [id |-> bountyCount,
     creator |-> caller,
     totalPrize |-> SumSeq(prizes),
     prizes |-> prizes,
     participants |-> << >>,
     winners |-> << >>,
     isActive |-> TRUE]

CreateReturn_AfterIncrement(caller, prizes) == [bountyId |-> bountyCount + 1]

\* return {bountyId: bounty.id}
CreateReturn(caller, prizes) == [bountyId |-> NewBounty(caller, prizes).id]

create_bounty(caller, prizes, deposit) ==
    /\ Call([op |-> "create_bounty", caller |-> caller])
    /\ IF CreateResult(prizes, deposit) # "ok"
       THEN Panic(CreateResult(prizes, deposit))
       ELSE /\ bounties' = bounties @@ (bountyCount :> NewBounty(caller, prizes))
            /\ bountyCount' = bountyCount + 1
            /\ result' = "ok"
            /\ returned' = CreateReturn(caller, prizes)
            /\ hostCalls' = <<StorageWrite(bountyCount, NewBounty(caller, prizes))>>
            /\ transfers' = << >>
            /\ deposited' = deposited + deposit
            /\ paidOut' = paidOut @@ (bountyCount :> 0)
            /\ UNCHANGED <<owner, feePercentage>>

\* outcome of participate: "ok" or the failed assert
ParticipateResult(bountyId) ==
    IF ~Exists(bountyId) THEN "NotFound"
    ELSE IF ~IsOpen(bounties[bountyId]) THEN "BountyClosed"
    ELSE "ok"

Joined_Always(participants, participant) ==
    Append(participants, participant)

\* bounty.participants after participate
Joined(participants, participant) ==
    IF participant \notin Range(participants)
    THEN Append(participants, participant)
    ELSE participants

\* the record is written back only when the caller was added
ParticipateWrites(participant, bountyId) ==
    IF participant \notin Range(bounties[bountyId].participants)
    THEN <<StorageWrite(bountyId,
              [bounties[bountyId] EXCEPT !.participants = Joined(@, participant)])>>
    ELSE << >>

participate(caller, bountyId) ==
    /\ Call([op |-> "participate", caller |-> caller])
    /\ IF ParticipateResult(bountyId) # "ok"
       THEN Panic(ParticipateResult(bountyId))
       ELSE /\ bounties' = [bounties EXCEPT ![bountyId].participants =
                              Joined(@, caller)]
            /\ result' = "ok"
            /\ returned' = Void
            /\ hostCalls' = ParticipateWrites(caller, bountyId)
            /\ transfers' = << >>
            /\ UNCHANGED <<bountyCount, owner, feePercentage, ledger>>

FinalizedBounty_StaysActive(bountyId, winners) ==
    [bounties[bountyId] EXCEPT !.winners = winners]

\* the record finalize_bounty stores before distributing
FinalizedBounty(bountyId, winners) ==
    [bounties[bountyId] EXCEPT !.winners = winners, !.isActive = FALSE]

FinalizeResult_CreatorFirst(caller, bountyId, winners) ==
    IF ~Exists(bountyId) THEN "NotFound"
    ELSE IF ~IsCreator(caller, bounties[bountyId]) THEN "Unauthorized"
    ELSE IF ~bounties[bountyId].isActive THEN "BountyClosed"
    ELSE IF winners = << >> THEN "InvalidInput"
    ELSE IF ~CountMatches(winners, bounties[bountyId])
         THEN "PrizeCountMismatch"
    ELSE IF ~WinnersAreParticipants(winners, bounties[bountyId])
         THEN "NotAParticipant"
    ELSE IF DistributionError(FinalizedBounty(bountyId, winners)) # ""
         THEN DistributionError(FinalizedBounty(bountyId, winners))
    ELSE "ok"

\* outcome of finalize_bounty: "ok", the failed assert, or the error thrown
\* while distributing
FinalizeResult(caller, bountyId, winners) ==
    IF ~Exists(bountyId) THEN "NotFound"
    ELSE IF ~bounties[bountyId].isActive THEN "BountyClosed"
    ELSE IF ~IsCreator(caller, bounties[bountyId]) THEN "Unauthorized"
    ELSE IF winners = << >> THEN "InvalidInput"
    ELSE IF ~CountMatches(winners, bounties[bountyId])
         THEN "PrizeCountMismatch"
    ELSE IF ~WinnersAreParticipants(winners, bounties[bountyId])
         THEN "NotAParticipant"
    ELSE IF DistributionError(FinalizedBounty(bountyId, winners)) # ""
         THEN DistributionError(FinalizedBounty(bountyId, winners))
    ELSE "ok"

FinalizeHostCalls_DistributeFirst(bountyId, winners) ==
    [i \in 1..Len(Distribution(FinalizedBounty(bountyId, winners))) |->
        PromiseTransfer(Distribution(FinalizedBounty(bountyId, winners))[i])]
    \o <<StorageWrite(bountyId, FinalizedBounty(bountyId, winners))>>

\* this.bounties.set(...) and then this._distribute_prizes(bounty)
FinalizeHostCalls(bountyId, winners) ==
    <<StorageWrite(bountyId, FinalizedBounty(bountyId, winners))>>
    \o [i \in 1..Len(Distribution(FinalizedBounty(bountyId, winners))) |->
          PromiseTransfer(Distribution(FinalizedBounty(bountyId, winners))[i])]

finalize_bounty_ErrorSwallowed(caller, bountyId, winners) ==
    /\ Call([op |-> "finalize_bounty", caller |-> caller])
    /\ IF FinalizeResult(caller, bountyId, winners) \in {"RangeError", "HostError"}
       THEN /\ bounties' = [bounties EXCEPT ![bountyId] =
                              FinalizedBounty(bountyId, winners)]
            /\ result' = FinalizeResult(caller, bountyId, winners)
            /\ returned' = Void
            /\ hostCalls' = << >>
            /\ transfers' = << >>
            /\ UNCHANGED <<bountyCount, owner, feePercentage, ledger>>
       ELSE IF FinalizeResult(caller, bountyId, winners) # "ok"
       THEN Panic(FinalizeResult(caller, bountyId, winners))
       ELSE /\ bounties' = [bounties EXCEPT ![bountyId] =
                              FinalizedBounty(bountyId, winners)]
            /\ result' = "ok"
            /\ returned' = Void
            /\ hostCalls' = FinalizeHostCalls(bountyId, winners)
            /\ transfers' = Distribution(FinalizedBounty(bountyId, winners))
            /\ paidOut' = [paidOut EXCEPT ![bountyId] =
                             @ + Sent(Distribution(FinalizedBounty(bountyId, winners)))]
            /\ UNCHANGED <<bountyCount, owner, feePercentage, deposited>>

finalize_bounty(caller, bountyId, winners) ==
    /\ Call([op |-> "finalize_bounty", caller |-> caller])
    /\ IF FinalizeResult(caller, bountyId, winners) # "ok"
       THEN Panic(FinalizeResult(caller, bountyId, winners))
       ELSE /\ bounties' = [bounties EXCEPT ![bountyId] =
                              FinalizedBounty(bountyId, winners)]
            /\ result' = "ok"
            /\ returned' = Void
            /\ hostCalls' = FinalizeHostCalls(bountyId, winners)
            /\ transfers' = Distribution(FinalizedBounty(bountyId, winners))
            /\ paidOut' = [paidOut EXCEPT ![bountyId] =
                             @ + Sent(Distribution(FinalizedBounty(bountyId, winners)))]
            /\ UNCHANGED <<bountyCount, owner, feePercentage, deposited>>

\* A view reads the state and returns; it has no predecessor account.
View(op, value) ==
    /\ Call([op |-> op, caller |-> ""])
    /\ result' = "ok"
    /\ returned' = value
    /\ hostCalls' = << >>
    /\ transfers' = << >>
    /\ UNCHANGED <<state, ledger>>

get_fee_info ==
    View("get_fee_info", [owner |-> owner, feePercentage |-> feePercentage])

\* outcome of get_bounty: "ok" or the failed assert
GetBountyResult(bountyId) ==
    IF ~Exists(bountyId) THEN "NotFound" ELSE "ok"

get_bounty(bountyId) ==
    IF GetBountyResult(bountyId) # "ok"
    THEN /\ Call([op |-> "get_bounty", caller |-> ""])
         /\ Panic(GetBountyResult(bountyId))
    ELSE View("get_bounty", bounties[bountyId])

\* for (let i = 0; i < n; i++) { b = this.bounties.get(i); if (b && b is
\* selected) push(b) }
RECURSIVE ScanBounties(_, _)
ScanBounties(n, selected) ==
    IF n <= 0 THEN << >>
    ELSE ScanBounties(n - 1, selected)
         \o (IF Exists(n - 1) /\ bounties[n - 1] \in selected
             THEN <<bounties[n - 1]>>
             ELSE << >>)

StoredBounties == {bounties[k] : k \in DOMAIN bounties}

GetAllBounties == ScanBounties(bountyCount, StoredBounties)

get_all_bounties == View("get_all_bounties", GetAllBounties)

GetParticipantBounties(participantId) ==
    ScanBounties(bountyCount,
                 {b \in StoredBounties : participantId \in Range(b.participants)})

get_participant_bounties(participantId) ==
    View("get_participant_bounties", GetParticipantBounties(participantId))

GetCreatorBounties(creatorId) ==
    ScanBounties(bountyCount, {b \in StoredBounties : b.creator = creatorId})

get_creator_bounties(creatorId) ==
    View("get_creator_bounties", GetCreatorBounties(creatorId))

Next ==
    \/ \E c \in Accounts, n \in NewOwnerInputs : set_owner(c, n)
    \/ \E c \in Accounts, f \in FeeInputs : update_fee_percentage(c, f)
    \/ \E c \in Accounts, p \in PrizeInputs, d \in DepositInputs :
          bountyCount < MaxBounties /\ create_bounty(c, p, d)
    \/ \E c \in Accounts, b \in BountyIds : participate(c, b)
    \/ \E c \in Accounts, b \in BountyIds, w \in WinnerInputs :
          finalize_bounty(c, b, w)
    \/ get_fee_info
    \/ \E b \in ViewIds : get_bounty(b)
    \/ get_all_bounties
    \/ \E a \in Accounts : get_participant_bounties(a)
    \/ \E a \in Accounts : get_creator_bounties(a)
    \/ Return

Spec == Init /\ [][Next]_vars

----------------------------------------------------------------------------
(* The first contract of src/unnamed/part_000 (lines 24-181): no owner, no  *)
(* fee.  Its create_bounty, participate and get_bounty are statement for    *)
(* statement those of the fee-enabled contract; owner and feePercentage are *)
(* not fields of this contract and keep their initial values.               *)

\* promises created by _distribute_prizes: the full prize to each winner
V1_Distribution(bounty) ==
    [i \in 1..Len(bounty.winners) |->
        [to |-> bounty.winners[i], amount |-> bounty.prizes[i]]]

\* outcome of finalize_bounty: "ok", the failed assert, or the host's
\* refusal of a negative transfer amount
V1_FinalizeResult(caller, bountyId, winners) ==
    IF ~Exists(bountyId) THEN "NotFound"
    ELSE IF ~bounties[bountyId].isActive THEN "BountyClosed"
    ELSE IF ~IsCreator(caller, bounties[bountyId]) THEN "Unauthorized"
    ELSE IF winners = << >> THEN "InvalidInput"
    ELSE IF Len(bounties[bountyId].prizes) # Len(winners)
         THEN "PrizeCountMismatch"
    ELSE IF \E i \in 1..Len(winners) : ~IsU128(bounties[bountyId].prizes[i])
         THEN "HostError"
    ELSE "ok"

V1_finalize_bounty(caller, bountyId, winners) ==
    /\ Call([op |-> "finalize_bounty", caller |-> caller])
    /\ IF V1_FinalizeResult(caller, bountyId, winners) # "ok"
       THEN Panic(V1_FinalizeResult(caller, bountyId, winners))
       ELSE /\ bounties' = [bounties EXCEPT ![bountyId] =
                              FinalizedBounty(bountyId, winners)]
            /\ result' = "ok"
            /\ returned' = Void
            /\ hostCalls' =
                  <<StorageWrite(bountyId, FinalizedBounty(bountyId, winners))>>
                  \o [i \in 1..Len(winners) |->
                        PromiseTransfer(
                           V1_Distribution(FinalizedBounty(bountyId, winners))[i])]
            /\ transfers' = V1_Distribution(FinalizedBounty(bountyId, winners))
            /\ paidOut' = [paidOut EXCEPT ![bountyId] =
                             @ + Sent(V1_Distribution(FinalizedBounty(bountyId, winners)))]
            /\ UNCHANGED <<bountyCount, owner, feePercentage, deposited>>

\* @initialize: runs only while the contract has no saved state, and then
\* sets the empty map and the zero count the constructor set.  A contract
\* with an empty store may or may not have saved its state already.
V1_init ==
    /\ Call([op |-> "init", caller |-> ""])
    /\ IF bounties = EmptyMap /\ bountyCount = 0
       THEN \/ /\ result' = "ok"
               /\ returned' = Void
               /\ hostCalls' = << >>
               /\ transfers' = << >>
               /\ UNCHANGED <<state, ledger>>
            \/ Panic("AlreadyInitialized")
       ELSE Panic("AlreadyInitialized")

\* this.bounties.values(): the records in insertion order
V1_get_all_bounties ==
    View("get_all_bounties", [k \in 1..Cardinality(DOMAIN bounties) |-> bounties[k - 1]])

V1_Next ==
    \/ V1_init
    \/ \E c \in Accounts, p \in PrizeInputs, d \in DepositInputs :
          bountyCount < MaxBounties /\ create_bounty(c, p, d)
    \/ \E c \in Accounts, b \in BountyIds : participate(c, b)
    \/ \E c \in Accounts, b \in BountyIds, w \in WinnerInputs :
          V1_finalize_bounty(c, b, w)
    \/ \E b \in ViewIds : get_bounty(b)
    \/ V1_get_all_bounties
    \/ Return

SpecFirstVariant == Init /\ [][V1_Next]_vars

----------------------------------------------------------------------------
(* Properties *)

Amounts(t) == [i \in 1..Len(t) |-> t[i].amount]

Blank == {Absent, "", " "}

FinalizeOk == last.op = "finalize_bounty" /\ result = "ok"

\* the step finalizes bounty b
Finalizes(b) ==
    /\ b \in DOMAIN bounties
    /\ bounties[b].isActive
    /\ ~bounties'[b].isActive

\* The outcome operators are evaluated where a call can start: last = NoCall.

\* a failed call leaves the contract state alone and issues no transfer
NothingHappened ==
    state' = state /\ transfers' = << >> /\ hostCalls' = << >>

\* C1: every successful finalize_bounty transfers, over the winners' net
\* payouts and the fee transfer to the owner (if issued), exactly the
\* bounty's totalPrize, for every feePercentage and with or without an owner.
C1_TransfersSumToTotalPrize ==
    [][(last'.op = "finalize_bounty" /\ result' = "ok")
       => \E b \in DOMAIN bounties :
             /\ Finalizes(b)
             /\ SumSeq(Amounts(transfers')) = bounties[b].totalPrize]_vars

C1_Witness ==
    /\ FinalizeOk
    /\ owner # ""
    /\ feePercentage = Int_(100)
    /\ Amounts(transfers) = <<0, 0, 150000>>

\* C2: finalize_bounty with a winners entry that is not a participant fails,
\* with NotAParticipant when the earlier checks pass, leaves the bounty Open
\* with empty winners and issues no transfer; and every winner of a
\* finalized bounty is one of its participants.
C2_OutsiderRejected ==
    last = NoCall =>
        \A c \in Accounts, b \in DOMAIN bounties, w \in WinnerInputs :
            (/\ bounties[b].isActive
             /\ \E i \in 1..Len(w) : w[i] \notin Range(bounties[b].participants))
            => /\ FinalizeResult(c, b, w) # "ok"
               /\ (c = bounties[b].creator /\ Len(w) = Len(bounties[b].prizes))
                     => FinalizeResult(c, b, w) = "NotAParticipant"

C2_WinnersOfFinalizedAreParticipants ==
    \A b \in DOMAIN bounties :
        ~bounties[b].isActive =>
            Range(bounties[b].winners) \subseteq Range(bounties[b].participants)

C2_WinnersMustBeParticipants ==
    /\ [](C2_OutsiderRejected /\ C2_WinnersOfFinalizedAreParticipants)
    /\ [][(last'.op = "finalize_bounty" /\ result' = "NotAParticipant")
          => /\ NothingHappened
             /\ \E b \in DOMAIN bounties' :
                   /\ bounties'[b].isActive
                   /\ bounties'[b].winners = << >>
                   /\ bounties'[b].creator = last'.caller]_vars

C2_Witness ==
    /\ last.op = "finalize_bounty"
    /\ result = "NotAParticipant"
    /\ transfers = << >>
    /\ \E b \in DOMAIN bounties :
          /\ bounties[b].isActive
          /\ bounties[b].creator = last.caller
          /\ Len(bounties[b].participants) = 1
          /\ bounties[b].winners = << >>

\* C3: finalize_bounty on an Open bounty by anyone but its creator fails with
\* Unauthorized, changes nothing and issues no transfer; a bounty only
\* becomes Finalized in a finalize_bounty call made by its creator.
C3_OthersUnauthorized ==
    last = NoCall =>
        \A c \in Accounts, b \in DOMAIN bounties, w \in WinnerInputs :
            (bounties[b].isActive /\ c # bounties[b].creator)
            => FinalizeResult(c, b, w) = "Unauthorized"

C3_OnlyCreatorFinalizes ==
    /\ []C3_OthersUnauthorized
    /\ [][/\ (last'.op = "finalize_bounty" /\ result' = "Unauthorized")
               => NothingHappened
          /\ \A b \in DOMAIN bounties :
               Finalizes(b)
               => /\ last'.op = "finalize_bounty"
                  /\ last'.caller = bounties[b].creator
                  /\ result' = "ok"]_vars

C3_Witness ==
    /\ last.op = "finalize_bounty"
    /\ result = "Unauthorized"
    /\ last.caller = owner
    /\ \E b \in DOMAIN bounties :
          /\ bounties[b].isActive
          /\ bounties[b].creator # owner
          /\ Range(bounties[b].participants) = Accounts

\* C4: a finalized bounty never changes again: its record stays as it is
\* under every later call, and finalize_bounty and participate on it fail
\* with BountyClosed without issuing transfers.
C4_ClosedRejected ==
    last = NoCall =>
        \A c \in Accounts, b \in DOMAIN bounties, w \in WinnerInputs :
            ~bounties[b].isActive
            => /\ FinalizeResult(c, b, w) = "BountyClosed"
               /\ ParticipateResult(b) = "BountyClosed"

C4_FinalizedIsTerminal ==
    /\ []C4_ClosedRejected
    /\ [][/\ \A b \in DOMAIN bounties :
               ~bounties[b].isActive
               => b \in DOMAIN bounties' /\ bounties'[b] = bounties[b]
          /\ result' = "BountyClosed" => NothingHappened]_vars

C4_Witness ==
    /\ last.op = "participate"
    /\ result = "BountyClosed"
    /\ \E b \in DOMAIN bounties :
          /\ ~bounties[b].isActive
          /\ Len(bounties[b].winners) = Len(bounties[b].prizes)
          /\ last.caller \notin Range(bounties[b].participants)

\* C5: for a non-empty prizes list create_bounty succeeds exactly when the
\* attached deposit equals the sum of the prizes; otherwise it fails with
\* PaymentMismatch, stores no record and leaves the counter unchanged.
C5_MismatchRejected ==
    last = NoCall =>
        \A p \in PrizeInputs \ {<< >>}, d \in DepositInputs :
            /\ (CreateResult(p, d) = "ok") <=> (d = SumSeq(p))
            /\ d # SumSeq(p) => CreateResult(p, d) = "PaymentMismatch"

C5_CreateIffDepositMatches ==
    /\ []C5_MismatchRejected
    /\ [][/\ (last'.op = "create_bounty" /\ result' = "PaymentMismatch")
               => NothingHappened
          /\ (last'.op = "create_bounty" /\ result' = "ok")
               => /\ bountyCount' = bountyCount + 1
                  /\ DOMAIN bounties' = DOMAIN bounties \cup {bountyCount}
                  /\ bounties'[bountyCount].totalPrize \in DepositInputs
                  /\ bounties'[bountyCount].totalPrize =
                        SumSeq(bounties'[bountyCount].prizes)]_vars

C5_Witness ==
    /\ last.op = "create_bounty"
    /\ result = "PaymentMismatch"
    /\ bountyCount = 0
    /\ bounties = EmptyMap

\* C6: create_bounty fails with InvalidInput, storing nothing, whenever
\* prizes is empty or holds a zero or negative amount; so a create_bounty
\* that succeeds has stored a non-empty list of positive prizes.
C6_NonPositivePrizesRejected ==
    [][(last'.op = "create_bounty" /\ result' = "ok")
       => /\ bounties'[bountyCount].prizes # << >>
          /\ \A i \in 1..Len(bounties'[bountyCount].prizes) :
                bounties'[bountyCount].prizes[i] > 0]_vars

\* C7: with an owner set, a successful finalize_bounty sends winners[i]
\* prizes[i] - floor(prizes[i] * feePercentage / 100), position by position,
\* and sends the owner the sum of the floored fees; prizes of 1 and 0.5 NEAR
\* at 2% pay 0.98 and 0.49 NEAR to the winners and 0.03 NEAR to the owner.
C7_PositionalNetPayouts ==
    [][(last'.op = "finalize_bounty" /\ result' = "ok" /\ owner # "")
       => \E b \in DOMAIN bounties :
             /\ Finalizes(b)
             /\ LET w == bounties'[b].winners
                    pz == bounties[b].prizes
                    f == feePercentage.int
                    n == Len(w)
                    feeSum == SumSeq([i \in 1..n |-> (pz[i] * f) \div 100])
                IN  /\ n = Len(pz)
                    /\ Len(transfers') \in {n, n + 1}
                    /\ \A i \in 1..n :
                          transfers'[i] =
                             [to |-> w[i],
                              amount |-> pz[i] - (pz[i] * f) \div 100]
                    /\ IF Len(transfers') = n + 1
                       THEN transfers'[n + 1] = [to |-> owner, amount |-> feeSum]
                       ELSE feeSum = 0
                    /\ (pz = <<100000, 50000>> /\ f = 2)
                          => Amounts(transfers') = <<98000, 49000, 3000>>]_vars

C7_Witness ==
    /\ FinalizeOk
    /\ owner # ""
    /\ \E b \in DOMAIN bounties :
          /\ bounties[b].prizes = <<100000, 50000>>
          /\ bounties[b].winners[1] # bounties[b].winners[2]
          /\ transfers = <<[to |-> bounties[b].winners[1], amount |-> 98000],
                           [to |-> bounties[b].winners[2], amount |-> 49000],
                           [to |-> owner, amount |-> 3000]>>

\* C8: while no owner has been set, a successful finalize_bounty sends every
\* winners[i] exactly prizes[i] and issues no fee transfer.
C8_NoOwnerNoFee ==
    [][(last'.op = "finalize_bounty" /\ result' = "ok" /\ owner = "")
       => \E b \in DOMAIN bounties :
             /\ Finalizes(b)
             /\ transfers' =
                   [i \in 1..Len(bounties[b].prizes) |->
                       [to |-> bounties'[b].winners[i],
                        amount |-> bounties[b].prizes[i]]]]_vars

C8_Witness ==
    /\ FinalizeOk
    /\ owner = ""
    /\ Amounts(transfers) = <<100000, 50000>>

\* C9: while no owner is set, set_owner by any caller succeeds and makes the
\* caller the owner whatever new_owner is; a later set_owner by a caller
\* other than the owner fails with Unauthorized.
C9_Bootstrap ==
    last = NoCall =>
        /\ owner = ""
             => \A c \in Accounts, n \in NewOwnerInputs :
                   /\ SetOwnerResult(c, n) = "ok"
                   /\ SetOwnerValue(c, n) = c
        /\ owner # ""
             => \A c \in Accounts \ {owner}, n \in NewOwnerInputs :
                   SetOwnerResult(c, n) = "Unauthorized"

C9_FirstCallerBecomesOwner ==
    /\ []C9_Bootstrap
    /\ [][/\ (owner = "" /\ last'.op = "set_owner")
               => /\ result' = "ok"
                  /\ owner' = last'.caller
          /\ (last'.op = "set_owner" /\ last'.caller # owner /\ owner # "")
               => /\ result' = "Unauthorized"
                  /\ NothingHappened]_vars

C9_Witness ==
    /\ last.op = "set_owner"
    /\ result = "ok"
    /\ owner = last.caller
    /\ feePercentage = Int_(DefaultFee)
    /\ bountyCount = 1

\* C10: once an owner is set, the owner changes only in a set_owner call by
\* the current owner with a non-empty new_owner, and becomes new_owner;
\* set_owner by anyone else fails with Unauthorized, set_owner by the owner
\* with an absent or blank new_owner keeps the owner, the owner is never
\* unset again, and a replaced owner can no longer change ownership.
C10_OwnerGated ==
    (last = NoCall /\ owner # "")
        => /\ \A c \in Accounts \ {owner}, n \in NewOwnerInputs :
                 SetOwnerResult(c, n) = "Unauthorized"
           /\ \A n \in NewOwnerInputs :
                 /\ SetOwnerResult(owner, n) = "ok"
                 /\ SetOwnerValue(owner, n) = IF n \in Blank THEN owner ELSE n

C10_OnlyOwnerReassigns ==
    /\ []C10_OwnerGated
    /\ [][owner # ""
          => /\ owner' # ""
             /\ (last'.op = "set_owner" /\ result' = "Unauthorized")
                   => owner' = owner /\ last'.caller # owner
             /\ owner' # owner
                   => /\ last'.op = "set_owner"
                      /\ last'.caller = owner
                      /\ result' = "ok"
                      /\ owner' \notin Blank
                      /\ set_owner(owner, owner')
                      /\ \A c \in {owner}, n \in NewOwnerInputs :
                            SetOwnerResult(c, n)' = "Unauthorized"]_vars

C10_Witness ==
    /\ last.op = "set_owner"
    /\ result = "Unauthorized"
    /\ owner \in Accounts \ {last.caller}
    /\ feePercentage # Int_(DefaultFee)

\* twice the value of a JavaScript number
Doubled(n) == 2 * n.int + (IF n.half THEN 1 ELSE 0)

Within0To100(n) == 0 <= Doubled(n) /\ Doubled(n) <= 200

\* C11: update_fee_percentage fails with OwnerNotSet while no owner is set,
\* with Unauthorized when the caller is not the owner, and fails when the
\* owner asks for a value outside [0,100]; a failing call leaves
\* feePercentage as it was, and the owner's call with a value in [0,100]
\* succeeds and makes feePercentage exactly that value.
C11_FeeUpdateOutcome ==
    last = NoCall =>
        \A c \in Accounts, f \in FeeInputs :
            /\ owner = "" => UpdateFeeResult(c, f) = "OwnerNotSet"
            /\ (owner # "" /\ c # owner) => UpdateFeeResult(c, f) = "Unauthorized"
            /\ (c = owner /\ ~Within0To100(f)) => UpdateFeeResult(c, f) = "InvalidInput"
            /\ (c = owner /\ Within0To100(f)) => UpdateFeeResult(c, f) = "ok"

C11_FeeUpdateGuarded ==
    /\ []C11_FeeUpdateOutcome
    /\ [][last'.op = "update_fee_percentage"
          => /\ result' # "ok" => NothingHappened
             /\ result' = "ok"
                   => /\ last'.caller = owner
                      /\ Within0To100(feePercentage')
             /\ \A f \in FeeInputs :
                   update_fee_percentage(last'.caller, f)
                   => feePercentage' = IF result' = "ok" THEN f ELSE feePercentage]_vars

C11_Witness ==
    /\ last.op = "update_fee_percentage"
    /\ result = "ok"
    /\ last.caller = owner
    /\ feePercentage = Int_(100)

\* C12: feePercentage is always an integer in [0,100]; it is 2 from
\* construction until the first successful update_fee_percentage, and only a
\* successful update_fee_percentage by the owner changes it.
C12_FeeIsIntegerInRange ==
    /\ [](~feePercentage.half /\ Within0To100(feePercentage))
    /\ [][feePercentage' # feePercentage
          => /\ last'.op = "update_fee_percentage"
             /\ last'.caller = owner
             /\ result' = "ok"]_vars

IsPrefix(s, t) == Len(s) <= Len(t) /\ SubSeq(t, 1, Len(s)) = s

NoDuplicates(s) == \A i, j \in 1..Len(s) : s[i] = s[j] => i = j

\* C13: participate by a caller who is already a participant of an Open
\* bounty succeeds and changes nothing; the participants of a bounty never
\* hold a duplicate, and every step keeps the earlier participants in place,
\* adding at most the caller of a successful participate at the end.
C13_NoDuplicateParticipants ==
    \A b \in DOMAIN bounties : NoDuplicates(bounties[b].participants)

C13_ParticipateIdempotent ==
    /\ []C13_NoDuplicateParticipants
    /\ [][\A b \in DOMAIN bounties :
             LET old == bounties[b].participants
                 new == bounties'[b].participants
             IN  /\ b \in DOMAIN bounties'
                 /\ IsPrefix(old, new)
                 /\ new # old
                       => /\ new = Append(old, last'.caller)
                          /\ last'.op = "participate"
                          /\ result' = "ok"
                 /\ (/\ last'.op = "participate"
                     /\ bounties[b].isActive
                     /\ last'.caller \in Range(old)
                     /\ participate(last'.caller, b))
                       => /\ result' = "ok"
                          /\ state' = state
                          /\ hostCalls' = << >>]_vars

C13_Witness ==
    /\ last.op = "participate"
    /\ result = "ok"
    /\ hostCalls = << >>
    /\ \E b \in DOMAIN bounties :
          /\ bounties[b].isActive
          /\ Len(bounties[b].participants) = 2
          /\ bounties[b].participants[1] = last.caller

\* C14: a successful create_bounty raises bountyCount by exactly 1 and
\* returns the count before the call as the new bounty's id; a failing
\* create_bounty, every other call and every view leave bountyCount as it is.
C14_CountStepsOnCreate ==
    [][/\ (last'.op = "create_bounty" /\ result' = "ok")
            => /\ bountyCount' = bountyCount + 1
               /\ returned' = [bountyId |-> bountyCount]
       /\ ~(last'.op = "create_bounty" /\ result' = "ok")
            => bountyCount' = bountyCount]_vars

C14_Witness ==
    /\ last.op = "create_bounty"
    /\ result = "ok"
    /\ bountyCount = 1
    /\ returned = [bountyId |-> 0]
    /\ owner # ""

\* C15: the store holds a record for exactly the ids 0..bountyCount-1 and
\* the record under key i has id i; a stored record is never removed and
\* keeps its id; get_bounty(id) succeeds exactly for 0 <= id < bountyCount,
\* and get_all_bounties returns the bountyCount records in ascending id
\* order, skipping none.
C15_DenseStore ==
    /\ DOMAIN bounties = 0..(bountyCount - 1)
    /\ \A i \in DOMAIN bounties : bounties[i].id = i
    /\ last = NoCall =>
          /\ \A i \in ViewIds :
                (GetBountyResult(i) = "ok") <=> (0 <= i /\ i < bountyCount)
          /\ GetAllBounties = [k \in 1..bountyCount |-> bounties[k - 1]]

C16_WinnersMatchStatus ==
    \A b \in DOMAIN bounties :
        IF bounties[b].isActive
        THEN bounties[b].winners = << >>
        ELSE Len(bounties[b].winners) = Len(bounties[b].prizes)

C16_BadCountRejected ==
    last = NoCall =>
        \A c \in Accounts, b \in DOMAIN bounties, w \in WinnerInputs :
            (bounties[b].isActive /\ Len(w) # Len(bounties[b].prizes))
            => /\ FinalizeResult(c, b, w) # "ok"
               /\ c = bounties[b].creator
                     => FinalizeResult(c, b, w) =
                           IF w = << >> THEN "InvalidInput"
                           ELSE "PrizeCountMismatch"

C16_WinnerCount ==
    /\ [](C16_WinnersMatchStatus /\ C16_BadCountRejected)
    /\ [][(/\ last'.op = "finalize_bounty"
           /\ result' \in {"InvalidInput", "PrizeCountMismatch"})
          => /\ NothingHappened
             /\ \E b \in DOMAIN bounties' :
                   /\ bounties'[b].isActive
                   /\ bounties'[b].creator = last'.caller]_vars

C16_Witness ==
    /\ last.op = "finalize_bounty"
    /\ result = "PrizeCountMismatch"
    /\ \E b \in DOMAIN bounties :
          /\ bounties[b].isActive
          /\ bounties[b].winners = << >>
          /\ Len(bounties[b].prizes) = 2
          /\ Range(bounties[b].participants) = Accounts

\* C17: participate, finalize_bounty and get_bounty on an id that was never
\* created fail with NotFound, change nothing, return nothing and issue no
\* transfer; in finalize_bounty the existence check and the Open check come
\* before the creator check, so a caller who is not the creator gets
\* NotFound for a missing bounty and BountyClosed for a Finalized one.
C17_MissingIsNotFound ==
    last = NoCall =>
        /\ \A b \in (BountyIds \cup ViewIds) \ DOMAIN bounties :
              /\ ParticipateResult(b) = "NotFound"
              /\ GetBountyResult(b) = "NotFound"
              /\ \A c \in Accounts, w \in WinnerInputs :
                    FinalizeResult(c, b, w) = "NotFound"
        /\ \A b \in DOMAIN bounties, c \in Accounts, w \in WinnerInputs :
              (~bounties[b].isActive /\ c # bounties[b].creator)
              => FinalizeResult(c, b, w) = "BountyClosed"

C17_NotFound ==
    /\ []C17_MissingIsNotFound
    /\ [][result' = "NotFound"
          => /\ last'.op \in {"participate", "finalize_bounty", "get_bounty"}
             /\ NothingHappened
             /\ returned' = Void
             /\ \E b \in BountyIds \cup ViewIds : b \notin DOMAIN bounties]_vars

C17_Witness ==
    /\ last.op = "finalize_bounty"
    /\ result = "NotFound"
    /\ transfers = << >>
    /\ bountyCount = 1
    /\ bounties[0].creator = last.caller
    /\ bounties[0].isActive

\* C18: every bounty's totalPrize is the sum of its prizes and is the
\* deposit attached to the create_bounty call that stored it; its id,
\* creator, prizes and totalPrize are the same after every later step.
C18_TotalIsSum ==
    \A b \in DOMAIN bounties :
        bounties[b].totalPrize = SumSeq(bounties[b].prizes)

C18_TotalPrizeFixed ==
    /\ []C18_TotalIsSum
    /\ [][/\ \A b \in DOMAIN bounties :
               /\ b \in DOMAIN bounties'
               /\ bounties'[b].id = bounties[b].id
               /\ bounties'[b].creator = bounties[b].creator
               /\ bounties'[b].prizes = bounties[b].prizes
               /\ bounties'[b].totalPrize = bounties[b].totalPrize
          /\ (last'.op = "create_bounty" /\ result' = "ok")
               => \A p \in PrizeInputs, d \in DepositInputs :
                     create_bounty(last'.caller, p, d)
                     => /\ bounties'[bountyCount].totalPrize = d
                        /\ bounties'[bountyCount].prizes = p
                        /\ bounties'[bountyCount].creator = last'.caller]_vars

C18_Witness ==
    /\ last.op = "finalize_bounty"
    /\ result = "ok"
    /\ \E b \in DOMAIN bounties :
          /\ bounties[b].prizes = <<100000, 50000>>
          /\ bounties[b].totalPrize = 150000
          /\ Len(bounties[b].participants) = 2
          /\ ~bounties[b].isActive

\* a prize of 10^24 at 2%, with an owner set
OneNearAtTwoPercent(bounty, i) ==
    /\ owner # ""
    /\ feePercentage = Int_(2)
    /\ i \in 1..Len(bounty.prizes)
    /\ bounty.prizes[i] = 100000

\* the call just executed is a successful finalize_bounty of bounty b
JustFinalized(b) ==
    /\ FinalizeOk
    /\ hostCalls[1].call = "storage_write"
    /\ hostCalls[1].key = b

\* C19 as stated: at feePercentage 2 the fee computed for a prize of 10^24
\* is 2 * 10^19 (2 units) and the net amount paid to the winner is
\* 98 * 10^22 (98000 units).
C19_FeeIsTwoE19 ==
    \A b \in DOMAIN bounties, i \in 1..2 :
        (JustFinalized(b) /\ OneNearAtTwoPercent(bounties[b], i))
        => /\ Fee(bounties[b], i) = 2
           /\ transfers[i].amount = 98000

\* C19 amended: at feePercentage 2 the fee computed for a prize of 10^24 is
\* 2 * 10^22 (2000 units) and the net amount paid to the winner is
\* 98 * 10^22 (98000 units); a successful finalize_bounty pays that net
\* amount and sends the owner that fee within the fee transfer.
C19_FeeOfOneNear ==
    \A b \in DOMAIN bounties, i \in 1..2 :
        OneNearAtTwoPercent(bounties[b], i)
        => /\ Fee(bounties[b], i) = 2000
           /\ NetPrize(bounties[b], i) = 98000

C19_FeeIsTwoE22 ==
    /\ []C19_FeeOfOneNear
    /\ [][\A b \in DOMAIN bounties :
             (/\ Finalizes(b)
              /\ result' = "ok"
              /\ OneNearAtTwoPercent(bounties[b], 1)
              /\ bounties[b].prizes[2] = 50000)
             => /\ transfers'[1].amount = 98000
                /\ transfers'[3] = [to |-> owner, amount |-> 2000 + 1000]]_vars

C19_Witness ==
    /\ FinalizeOk
    /\ owner # ""
    /\ feePercentage = Int_(2)
    /\ Len(transfers) = 3
    /\ transfers[1].amount = 98000
    /\ transfers[3].amount = 3000
    /\ transfers[3].to = owner
    /\ transfers[1].to # owner

\* C20: a successful finalize_bounty first writes the record as Finalized,
\* then issues one transfer per winner, the i-th to winners[i], and last a
\* single transfer of the accumulated fee to the owner exactly when that fee
\* is greater than 0; it makes no other write or transfer.
C20_StoreThenPayInOrder ==
    [][(last'.op = "finalize_bounty" /\ result' = "ok")
       => \E b \in DOMAIN bounties :
             /\ Finalizes(b)
             /\ LET w == bounties'[b].winners
                    n == Len(w)
                    pz == bounties[b].prizes
                    totalFee ==
                        IF owner = "" THEN 0
                        ELSE SumSeq([i \in 1..n |->
                                        (pz[i] * feePercentage.int) \div 100])
                    calls == hostCalls'
                IN  /\ Len(calls) = 1 + n + (IF totalFee > 0 THEN 1 ELSE 0)
                    /\ calls[1].call = "storage_write"
                    /\ calls[1].key = b
                    /\ calls[1].value = bounties'[b]
                    /\ ~calls[1].value.isActive
                    /\ \A i \in 1..n :
                          /\ calls[1 + i].call = "promise_transfer"
                          /\ calls[1 + i].to = w[i]
                          /\ transfers'[i].to = w[i]
                    /\ totalFee > 0
                          => /\ calls[n + 2].call = "promise_transfer"
                             /\ calls[n + 2].to = owner
                             /\ calls[n + 2].amount = totalFee
                    /\ Len(transfers') = Len(calls) - 1
                    /\ \A i \in 1..Len(transfers') :
                          /\ transfers'[i].to = calls[1 + i].to
                          /\ transfers'[i].amount = calls[1 + i].amount]_vars

C20_Witness ==
    /\ FinalizeOk
    /\ owner # ""
    /\ feePercentage = Int_(0)
    /\ Len(hostCalls) = 3
    /\ hostCalls[1].call = "storage_write"
    /\ hostCalls[2].to # hostCalls[3].to
    /\ hostCalls[3].to # owner
    /\ hostCalls[2].amount = 100000

EntryPoints ==
    {"create_bounty", "participate", "finalize_bounty", "set_owner",
     "update_fee_percentage"}

\* C21: an entry-point call that fails leaves the store, bountyCount, owner
\* and feePercentage exactly as they were, returns nothing and issues no
\* transfer, also when the error is raised after the record was written; so
\* the counter always equals the number of stored records, and a bounty
\* becomes Finalized only in a successful call that issues a transfer to
\* each of its winners.
C21_CounterMatchesStore == bountyCount = Cardinality(DOMAIN bounties)

C21_AllOrNothing ==
    /\ []C21_CounterMatchesStore
    /\ [][/\ (last'.op \in EntryPoints /\ result' # "ok")
               => /\ NothingHappened
                  /\ returned' = Void
          /\ \A b \in DOMAIN bounties :
               Finalizes(b)
               => /\ result' = "ok"
                  /\ Len(transfers') >= Len(bounties'[b].winners)
                  /\ \A i \in 1..Len(bounties'[b].winners) :
                        transfers'[i].to = bounties'[b].winners[i]]_vars

C21_Witness ==
    /\ last.op = "finalize_bounty"
    /\ result = "RangeError"
    /\ transfers = << >>
    /\ \E b \in DOMAIN bounties :
          /\ bounties[b].isActive
          /\ bounties[b].winners = << >>
          /\ bounties[b].creator = last.caller
          /\ bounties[b].participants # << >>

\* C22: in the first contract of part_000 too, finalize_bounty by the
\* creator with a winners entry that never called participate fails and
\* pays nothing to that identity: every transfer of a successful
\* finalize_bounty goes to a participant of the finalized bounty.
C22_GuardInFirstVariant ==
    [][\A b \in DOMAIN bounties :
          (Finalizes(b) /\ result' = "ok")
          => \A i \in 1..Len(bounties'[b].winners) :
                /\ transfers'[i].to = bounties'[b].winners[i]
                /\ transfers'[i].to \in Range(bounties[b].participants)]_vars

\* sum of paidOut over the bounties created so far
TotalPaidOut == SumSeq([k \in 1..bountyCount |-> paidOut[k - 1]])

\* C23: transfers are issued only by a successful finalize_bounty, and a
\* bounty's transfers are issued in one step only, the one that finalizes
\* it; the sum transferred for a bounty is 0 while it is Open and its
\* totalPrize once it is Finalized, and the sum transferred for all bounties
\* never exceeds the sum deposited with create_bounty.
C23_PaidMatchesStatus ==
    /\ DOMAIN paidOut = DOMAIN bounties
    /\ \A b \in DOMAIN bounties :
          paidOut[b] = IF bounties[b].isActive THEN 0
                       ELSE bounties[b].totalPrize
    /\ TotalPaidOut <= deposited

C23_PaidOncePerBounty ==
    /\ []C23_PaidMatchesStatus
    /\ [][/\ transfers' # << >>
               => last'.op = "finalize_bounty" /\ result' = "ok"
          /\ \A b \in DOMAIN bounties :
               paidOut'[b] # paidOut[b]
               => /\ Finalizes(b)
                  /\ paidOut[b] = 0
                  /\ paidOut'[b] = Sent(transfers')]_vars

C23_Witness ==
    /\ last.op = "finalize_bounty"
    /\ result = "BountyClosed"
    /\ deposited = 150000
    /\ TotalPaidOut = 150000
    /\ owner # ""

\* winners lists the creator of Open bounty b could finalize it with
EligibleWinners(b) ==
    {w \in WinnerInputs :
        /\ Len(w) = Len(bounties[b].prizes)
        /\ \A i \in 1..Len(w) : w[i] \in Range(bounties[b].participants)}

\* C24: the fee withheld from a bounty is the one given by the owner and
\* feePercentage at the time of finalize_bounty: whatever they were when the
\* bounty was created, a finalize_bounty that succeeds pays by the current
\* owner and fee; a successful set_owner or update_fee_percentage that sets
\* the first owner or another fee changes the fee withheld from the prizes
\* of every Open bounty, and a finalize_bounty at fee 100 with an owner set
\* sends each winner 0 and the owner totalPrize.
C24_PayoutFollowsCurrentFee ==
    last = NoCall =>
        \A b \in DOMAIN bounties :
            bounties[b].isActive
            => \A w \in EligibleWinners(b) :
                  FinalizeResult(bounties[b].creator, b, w) = "ok"
                  => \A i \in 1..Len(w) :
                        Distribution(FinalizedBounty(b, w))[i].amount =
                           IF owner = "" THEN bounties[b].prizes[i]
                           ELSE bounties[b].prizes[i] -
                                (bounties[b].prizes[i] * feePercentage.int) \div 100

C24_FeeAtFinalizeTime ==
    /\ []C24_PayoutFollowsCurrentFee
    /\ [][/\ (/\ last'.op \in {"set_owner", "update_fee_percentage"}
               /\ result' = "ok"
               /\ (owner = "" \/ feePercentage'.int # feePercentage.int))
               => \A b \in DOMAIN bounties :
                     \A i \in 1..Len(bounties[b].prizes) :
                        (bounties[b].isActive /\ bounties[b].prizes[i] >= 100)
                        => Fee(bounties[b], i)' # Fee(bounties[b], i)
          /\ (/\ last'.op = "finalize_bounty"
              /\ result' = "ok"
              /\ owner # ""
              /\ feePercentage = Int_(100))
               => \E b \in DOMAIN bounties :
                     /\ Finalizes(b)
                     /\ \A i \in 1..Len(bounties[b].prizes) :
                           transfers'[i].amount = 0
                     /\ bounties[b].totalPrize > 0
                           => transfers'[Len(transfers')] =
                                 [to |-> owner, amount |-> bounties[b].totalPrize]]_vars

C24_Witness ==
    /\ FinalizeOk
    /\ feePercentage = Int_(100)
    /\ \E b \in DOMAIN bounties :
          /\ bounties[b].creator # owner
          /\ bounties[b].winners[1] # bounties[b].winners[2]
          /\ transfers = <<[to |-> bounties[b].winners[1], amount |-> 0],
                           [to |-> bounties[b].winners[2], amount |-> 0],
                           [to |-> owner, amount |-> 150000]>>

\* C25: whatever owner and feePercentage are, the creator of an Open bounty
\* with at least one participant can finalize it with any winners list of
\* the prizes' length made of participants; an Open bounty without
\* participants cannot be finalized by any call.
C25_CreatorCanAlwaysFinalize ==
    last = NoCall =>
        \A b \in DOMAIN bounties :
            bounties[b].isActive
            => IF bounties[b].participants # << >>
               THEN \A w \in EligibleWinners(b) :
                       FinalizeResult(bounties[b].creator, b, w) = "ok"
               ELSE \A c \in Accounts, w \in WinnerInputs :
                       FinalizeResult(c, b, w) # "ok"

Views ==
    {"get_fee_info", "get_bounty", "get_all_bounties",
     "get_participant_bounties", "get_creator_bounties"}

\* the records of all bounties but b are the same after the step
OthersUntouched(b) ==
    \A k \in DOMAIN bounties \ {b} :
        k \in DOMAIN bounties' /\ bounties'[k] = bounties[k]

====
